---- MODULE Spec2Model ----
(***************************************************************************)
(* Qubit reduction of Pauli Hamiltonians: the tapering orchestrator        *)
(* (src/qondense/tapering.py) and the contextual-subspace orchestrator     *)
(* (src/qreduce/cs_vqe.py), with the GF(2) symplectic toolkit and the      *)
(* stabilizer-subspace projection they call.                               *)
(***************************************************************************)
EXTENDS Integers, Sequences, FiniteSets, TLC

VARIABLES
    hamiltonian,        \* self.hamiltonian: Pauli label -> coefficient
    noncontextual_set,  \* cs_vqe: self.noncontextual_set (a set of labels)
    ref_state,          \* tapering: self.ref_state (a bit sequence)
    self,               \* the instance's own attributes (a record)
    proj,               \* the S3_projection part of the instance
    ret,                \* what the last call returned or raised
    hist                \* history: the arguments of earlier calls

vars == <<hamiltonian, noncontextual_set, ref_state, self, proj, ret, hist>>

----------------------------------------------------------------------------
(* Bounds *)

NQubits == 2        \* qubits of every Pauli label
MaxGenTerms == 2    \* terms of an input to the symmetry extractor
MaxNcTerms == 4     \* terms of a noncontextual set given to the decomposer
MaxHamTerms == 2    \* terms of the Hamiltonian of an orchestrator instance

Qubits == 1..NQubits
SympCols == 1..(2 * NQubits)
Letters == {"I", "X", "Y", "Z"}
Paulis == [Qubits -> Letters]
Identity == [q \in Qubits |-> "I"]

None == [op |-> "none", status |-> "none"]

----------------------------------------------------------------------------
(* Pauli algebra and symplectic toolkit (qreduce.utils / qondense.utils)   *)

Min(S) == CHOOSE x \in S : \A y \in S : x <= y

\* 1 when the letter has an X component / a Z component
XBit(l) == IF l \in {"X", "Y"} THEN 1 ELSE 0
ZBit(l) == IF l \in {"Z", "Y"} THEN 1 ELSE 0

\* Two Pauli labels commute iff they differ on an even number of qubits
\* where both are non-identity.
Commute(p, q) ==
    Cardinality({i \in Qubits : p[i] # "I" /\ q[i] # "I" /\ p[i] # q[i]}) % 2 = 0

\* Phase-free product of two single-qubit letters
MulLetter(a, b) ==
    IF a = "I" THEN b
    ELSE IF b = "I" THEN a
    ELSE IF a = b THEN "I"
    ELSE CHOOSE l \in Letters \ {"I", a, b} : TRUE

\* multiply_paulis: the label of the product, phase dropped
multiply_paulis(p, q) == [i \in Qubits |-> MulLetter(p[i], q[i])]

\* the symplectic row of a label: X block, then Z block
symplectic(p) ==
    [i \in SympCols |-> IF i <= NQubits THEN XBit(p[i]) ELSE ZBit(p[i - NQubits])]

\* swap_XZ_blocks on one row: (X|Z) <-> (Z|X)
swap_XZ_blocks(v) ==
    [i \in SympCols |-> IF i <= NQubits THEN v[i + NQubits] ELSE v[i - NQubits]]

\* pauli_from_symplectic: decode an (X|Z) row
pauli_from_symplectic(v) ==
    [q \in Qubits |->
        IF v[q] = 1 /\ v[q + NQubits] = 1 THEN "Y"
        ELSE IF v[q] = 1 THEN "X"
        ELSE IF v[q + NQubits] = 1 THEN "Z"
        ELSE "I"]

\* position of a label in the dictionary order of the labels
LetterRank(l) == CASE l = "I" -> 0 [] l = "X" -> 1 [] l = "Y" -> 2 [] l = "Z" -> 3

RECURSIVE PauliRankFrom(_, _)
PauliRankFrom(p, i) ==
    IF i > NQubits THEN 0
    ELSE LetterRank(p[i]) + 4 * PauliRankFrom(p, i + 1)

PauliRank(p) == PauliRankFrom(p, 1)

\* the terms of an operator as a sequence (the rows of its symplectic matrix)
RECURSIVE TermSeq(_)
TermSeq(S) ==
    IF S = {} THEN <<>>
    ELSE LET p == CHOOSE x \in S : \A y \in S : PauliRank(x) <= PauliRank(y)
         IN <<p>> \o TermSeq(S \ {p})

XorRow(a, b) == [i \in DOMAIN a |-> (a[i] + b[i]) % 2]

IsZeroRow(r) == \A i \in DOMAIN r : r[i] = 0

\* gf2_gaus_elim: Gauss-Jordan elimination over GF(2), from (row r, column c) on
RECURSIVE GaussFrom(_, _, _, _)
GaussFrom(M, r, c, ncols) ==
    IF r > Len(M) \/ c > ncols THEN M
    ELSE LET cand == {i \in r..Len(M) : M[i][c] = 1} IN
         IF cand = {} THEN GaussFrom(M, r, c + 1, ncols)
         ELSE LET k == Min(cand)
                  sw == [M EXCEPT ![k] = M[r], ![r] = M[k]]
                  cl == [i \in 1..Len(M) |->
                            IF i # r /\ sw[i][c] = 1
                            THEN XorRow(sw[i], sw[r]) ELSE sw[i]]
              IN GaussFrom(cl, r + 1, c + 1, ncols)

gf2_gaus_elim(M, ncols) == GaussFrom(M, 1, 1, ncols)

\* gf2_basis_for_gf2_rref: a basis of the kernel of a matrix with 2n columns,
\* read off the row reduction of [M^T | I]
gf2_basis_for_gf2_rref(M) ==
    LET nr  == Len(M)
        aug == [j \in SympCols |->
                   [i \in 1..(nr + 2 * NQubits) |->
                       IF i <= nr THEN M[i][j]
                       ELSE IF i - nr = j THEN 1 ELSE 0]]
        rrf == gf2_gaus_elim(aug, nr + 2 * NQubits)
        zero_rrf == SelectSeq(rrf, LAMBDA row : \A i \in 1..nr : row[i] = 0)
    IN [k \in 1..Len(zero_rrf) |->
           [j \in SympCols |-> zero_rrf[k][nr + j]]]

----------------------------------------------------------------------------
(* tapering.identify_symmetry_generators                                   *)

\* the rows of an operator's symplectic matrix with the blocks swapped to (Z|X)
ZX_symp(terms) ==
    LET ts == TermSeq(terms)
    IN [i \in 1..Len(ts) |-> swap_XZ_blocks(symplectic(ts[i]))]

\* the same rows left in (X|Z) order: the block swap forgotten
identify_symmetry_generators_noswap(terms) ==
    LET ts      == TermSeq(terms)
        XZ      == [i \in 1..Len(ts) |-> symplectic(ts[i])]
        reduced == gf2_gaus_elim(XZ, 2 * NQubits)
        kernel  == gf2_basis_for_gf2_rref(reduced)
    IN [i \in 1..Len(kernel) |-> pauli_from_symplectic(kernel[i])]

identify_symmetry_generators(terms) ==
    LET reduced == gf2_gaus_elim(ZX_symp(terms), 2 * NQubits)
        kernel  == gf2_basis_for_gf2_rref(reduced)
    IN [i \in 1..Len(kernel) |-> pauli_from_symplectic(kernel[i])]

----------------------------------------------------------------------------
(* cs_vqe.independent_generators                                           *)

\* ZX_reduced: the row reduction with its all-zero rows dropped
ZX_reduced(terms) ==
    SelectSeq(gf2_gaus_elim(ZX_symp(terms), 2 * NQubits),
              LAMBDA row : ~IsZeroRow(row))

\* XZ_reduced: the reduced rows with the blocks swapped back
XZ_reduced(terms) ==
    LET zx == ZX_reduced(terms)
    IN [i \in 1..Len(zx) |-> swap_XZ_blocks(zx[i])]

\* unique_rows: the reduced rows that equal no row of the kernel basis
unique_rows(terms) ==
    LET kernel == gf2_basis_for_gf2_rref(ZX_reduced(terms))
    IN SelectSeq(XZ_reduced(terms),
                 LAMBDA sympauli : \A k \in 1..Len(kernel) : kernel[k] # sympauli)

\* QubitOp(cliquereps).adjacency_matrix(): entry 1 where two terms commute
adjacency_matrix(ops) ==
    [i \in 1..Len(ops) |->
        [j \in 1..Len(ops) |-> IF Commute(ops[i], ops[j]) THEN 1 ELSE 0]]

\* np.lexsort order of two rows: the last column is the primary key
LexLess(a, b) ==
    \E j \in DOMAIN a :
        /\ a[j] < b[j]
        /\ \A k \in DOMAIN a : k > j => a[k] = b[k]

RECURSIVE LexInsert(_, _, _)
LexInsert(x, s, mat) ==
    IF s = <<>> THEN <<x>>
    ELSE IF LexLess(mat[x], mat[Head(s)]) THEN <<x>> \o s
    ELSE <<Head(s)>> \o LexInsert(x, Tail(s), mat)

\* np.lexsort(mat.T): the (stable) order of the rows of mat
RECURSIVE LexSortFrom(_, _)
LexSortFrom(mat, k) ==
    IF k = 0 THEN <<>> ELSE LexInsert(k, LexSortFrom(mat, k - 1), mat)

lexsort(mat) == LexSortFrom(mat, Len(mat))

\* one representative for each run of equal rows of the sorted matrix
pick_cliquereps(reps) ==
    LET commutation_matrix == adjacency_matrix(reps)
        sort_order == lexsort(commutation_matrix)
        row_mask == [i \in 1..Len(sort_order) |->
                        \/ i = 1
                        \/ commutation_matrix[sort_order[i]]
                               # commutation_matrix[sort_order[i - 1]]]
        kept == SelectSeq([i \in 1..Len(sort_order) |-> <<sort_order[i], row_mask[i]>>],
                          LAMBDA e : e[2])
    IN [i \in 1..Len(kept) |-> reps[kept[i][1]]]

\* the whole method: np.stack raises on an empty list of unique rows
independent_generators(terms) ==
    LET kernel == gf2_basis_for_gf2_rref(ZX_reduced(terms))
        rows   == unique_rows(terms)
    IN IF rows = <<>>
       THEN [status |-> "ValueError"]
       ELSE [status |-> "ok",
             generators |-> [i \in 1..Len(kernel) |-> pauli_from_symplectic(kernel[i])],
             cliquereps |-> pick_cliquereps(
                                [i \in 1..Len(rows) |-> pauli_from_symplectic(rows[i])])]

----------------------------------------------------------------------------
(* Inputs *)

\* the sets of at least one and at most k Pauli labels
TermSets(k) == {{s[i] : i \in 1..k} : s \in [1..k -> Paulis]}

\* a set of terms is noncontextual when commutation is transitive on the
\* terms outside its centre
IsNoncontextual(S) ==
    LET centre == {s \in S : \A t \in S : Commute(s, t)}
        rest   == S \ centre
    IN \A a, b, c \in rest : Commute(a, b) /\ Commute(b, c) => Commute(a, c)

----------------------------------------------------------------------------
(* The symmetry extractor applied to a set of terms                        *)

InitGen ==
    /\ \E T \in TermSets(MaxGenTerms) :
          /\ hamiltonian = [t \in T |-> 1]
          /\ noncontextual_set = T
    /\ ref_state = <<>>
    /\ self = None
    /\ proj = None
    /\ ret = None
    /\ hist = <<>>

CallIdentifySymmetryGenerators ==
    /\ ret' = [op |-> "identify_symmetry_generators", status |-> "ok",
               generators |-> identify_symmetry_generators(DOMAIN hamiltonian)]
    /\ UNCHANGED <<hamiltonian, noncontextual_set, ref_state, self, proj, hist>>

CallIndependentGenerators ==
    /\ ret' = [op |-> "independent_generators"]
                 @@ independent_generators(DOMAIN hamiltonian \cap noncontextual_set)
    /\ UNCHANGED <<hamiltonian, noncontextual_set, ref_state, self, proj, hist>>

NextGen == CallIdentifySymmetryGenerators \/ CallIndependentGenerators

SpecGen == InitGen /\ [][NextGen]_vars

----------------------------------------------------------------------------
(* Linear independence over GF(2), stated on the labels                    *)

RECURSIVE XorOf(_, _)
XorOf(ops, I) ==
    IF I = {} THEN [j \in SympCols |-> 0]
    ELSE LET i == CHOOSE x \in I : TRUE
         IN XorRow(symplectic(ops[i]), XorOf(ops, I \ {i}))

LinearlyIndependent(ops) ==
    \A I \in SUBSET (1..Len(ops)) : I # {} => ~IsZeroRow(XorOf(ops, I))

ReturnedGenerators ==
    /\ ret.status = "ok"
    /\ ret.op \in {"identify_symmetry_generators", "independent_generators"}

\* C1: the generator set either extractor returns is linearly independent
\* over GF(2), holds no all-identity term, and each generator commutes with
\* every input term.
C1_GeneratorsIndependentAndCommuting ==
    ReturnedGenerators =>
        /\ LinearlyIndependent(ret.generators)
        /\ \A i \in 1..Len(ret.generators) :
              /\ ret.generators[i] # Identity
              /\ \A t \in DOMAIN hamiltonian : Commute(ret.generators[i], t)

\* both extractors have returned a set of two or more generators
C1_Witness ==
    /\ ReturnedGenerators
    /\ Len(ret.generators) >= 2
    /\ Cardinality(DOMAIN hamiltonian) >= 2

----------------------------------------------------------------------------
(* The decomposer applied to a noncontextual set of terms                  *)

InitNc ==
    /\ \E T \in TermSets(MaxNcTerms) :
          /\ IsNoncontextual(T)
          /\ hamiltonian = [t \in T |-> 1]
          /\ noncontextual_set = T
    /\ ref_state = <<>>
    /\ self = None
    /\ proj = None
    /\ ret = None
    /\ hist = <<>>

NextNc == CallIndependentGenerators

SpecNc == InitNc /\ [][NextNc]_vars

ReturnedCliques ==
    /\ ret.status = "ok"
    /\ ret.op = "independent_generators"

\* C2: the clique representatives returned for a noncontextual set
\* anticommute pairwise and commute with every returned generator.
C2_CliqueRepsAnticommute ==
    ReturnedCliques =>
        /\ \A i, j \in 1..Len(ret.cliquereps) :
              i # j => ~Commute(ret.cliquereps[i], ret.cliquereps[j])
        /\ \A i \in 1..Len(ret.cliquereps) : \A k \in 1..Len(ret.generators) :
              Commute(ret.cliquereps[i], ret.generators[k])

----------------------------------------------------------------------------
(* S3_projection: the stabilizer-subspace projection both classes inherit  *)

\* S3_projection.__init__: the stabilizers, their eigenvalues and the single
\* Pauli to rotate onto are stored; the record of dropped qubits is left as
\* it was
S3_projection_init(old, stabilizers, eigenvalues, sqp) ==
    [stabilizers       |-> stabilizers,
     eigenvalues       |-> eigenvalues,
     target_sqp        |-> sqp,
     stab_index_eigval |-> IF "stab_index_eigval" \in DOMAIN old
                           THEN old.stab_index_eigval ELSE <<>>]

\* the ways perform_projection may pair the stabilizers with the qubits it
\* drops: for each stabilizer a qubit it acts on, no qubit twice
DroppedQubits(p) ==
    {f \in [1..Len(p.stabilizers) -> Qubits] :
        /\ \A i \in DOMAIN f : p.stabilizers[i][f[i]] # "I"
        /\ \A i, j \in DOMAIN f : i # j => f[i] # f[j]}

\* perform_projection's value: the operator restricted to the subspace fixed
\* by the stored stabilizers and eigenvalues, after the inserted rotation
perform_projection(p, operator, insert_rotation) ==
    [operator        |-> operator,
     stabilizers     |-> p.stabilizers,
     eigenvalues     |-> p.eigenvalues,
     target_sqp      |-> p.target_sqp,
     insert_rotation |-> insert_rotation]

\* perform_projection's effect: stab_index_eigval maps each dropped qubit to
\* the eigenvalue fixed on it
after_projection(p, dropped) ==
    [p EXCEPT !.stab_index_eigval =
        [q \in {dropped[i] : i \in DOMAIN dropped} |->
            p.eigenvalues[CHOOSE i \in DOMAIN dropped : dropped[i] = q]]]

NoRotation == [rotation |-> "none"]

----------------------------------------------------------------------------
(* tapering                                                                *)

Bits == {0, 1}
Eigenvalues == {1, -1}

\* measure_operator: the expectation of a Pauli label in a basis state
measure_operator(pauli, state) ==
    IF \E q \in Qubits : pauli[q] \in {"X", "Y"} THEN 0
    ELSE IF Cardinality({q \in Qubits : pauli[q] = "Z" /\ state[q] = 1}) % 2 = 0
         THEN 1 ELSE -1

identify_symmetry_sector(symmetry_ops, state) ==
    [i \in 1..Len(symmetry_ops) |-> measure_operator(symmetry_ops[i], state)]

\* update_S3_projection that re-enters the sector of the reference state
update_S3_projection_stale(slf, p, symmetry_sector) ==
    S3_projection_init(p, slf.symmetry_ops, slf.symmetry_sec, slf.target_sqp)

update_S3_projection(slf, p, symmetry_sector) ==
    S3_projection_init(p, slf.symmetry_ops, symmetry_sector, slf.target_sqp)

PairwiseCommute(ops) ==
    \A i, j \in 1..Len(ops) : Commute(ops[i], ops[j])

\* tapering.__init__
InitTaper ==
    /\ \E T \in TermSets(MaxHamTerms), rs \in [Qubits -> Bits], sqp \in {"X", "Z"} :
          LET ops == identify_symmetry_generators(T)
              sec == identify_symmetry_sector(ops, rs)
          IN /\ PairwiseCommute(ops)
             /\ hamiltonian = [t \in T |-> 1]
             /\ ref_state = rs
             /\ self = [class        |-> "tapering",
                        n_qubits     |-> NQubits,
                        target_sqp   |-> sqp,
                        symmetry_ops |-> ops,
                        symmetry_sec |-> sec,
                        n_taper      |-> Len(ops)]
             /\ proj = S3_projection_init(<<>>, ops, sec, sqp)
    /\ noncontextual_set = {}
    /\ ret = None
    /\ hist = [updated |-> FALSE, since_search |-> FALSE]

Sectors(m) == [1..m -> Eigenvalues]

\* tapering.update_S3_projection(symmetry_sector)
UpdateS3Projection ==
    \E s \in Sectors(self.n_taper) :
        /\ proj' = update_S3_projection(self, proj, s)
        /\ hist' = [updated |-> TRUE, last_update |-> s, since_search |-> FALSE]
        /\ ret' = [op |-> "update_S3_projection", status |-> "ok"]
        /\ UNCHANGED <<hamiltonian, noncontextual_set, ref_state, self>>

\* the operators a caller may hand to taper_it: none, or a dictionary
OperatorArgs ==
    {[kind |-> "None"],
     [kind |-> "dict", dict |-> [t \in {[q \in Qubits |-> "X"]} |-> 1]]}

\* tapering.taper_it(operator)
TaperIt ==
    \E operator \in OperatorArgs, dropped \in DroppedQubits(proj) :
        LET op == IF operator.kind = "None" THEN hamiltonian ELSE operator.dict
        IN /\ ret' = [op |-> "taper_it", status |-> "ok",
                      value |-> perform_projection(proj, op, NoRotation)]
           /\ proj' = after_projection(proj, dropped)
           /\ UNCHANGED <<hamiltonian, noncontextual_set, ref_state, self, hist>>

\* tapering.taper_ref_state()
TaperRefState ==
    \E dropped \in DroppedQubits(proj) :
        LET after == after_projection(proj, dropped)
            taper_qubits == DOMAIN after.stab_index_eigval
            kept == SelectSeq([q \in Qubits |-> q], LAMBDA q : q \notin taper_qubits)
        IN /\ ret' = [op |-> "taper_ref_state", status |-> "ok",
                      projection |-> perform_projection(proj, hamiltonian, NoRotation),
                      value |-> [i \in 1..Len(kept) |-> ref_state[kept[i]]]]
           /\ proj' = after
           /\ UNCHANGED <<hamiltonian, noncontextual_set, ref_state, self, hist>>

\* itertools.product([+1, -1], repeat = m), in its order
RECURSIVE product_sectors(_)
product_sectors(m) ==
    IF m = 0 THEN << <<>> >>
    ELSE LET rest == product_sectors(m - 1)
         IN [i \in 1..Len(rest) |-> <<1>> \o rest[i]]
            \o [i \in 1..Len(rest) |-> <<-1>> \o rest[i]]

RECURSIVE InsertByEnergy(_, _)
InsertByEnergy(x, s) ==
    IF s = <<>> THEN <<x>>
    ELSE IF x.energy < Head(s).energy THEN <<x>> \o s
    ELSE <<Head(s)>> \o InsertByEnergy(x, Tail(s))

RECURSIVE SortFrom(_, _)
SortFrom(s, k) ==
    IF k = 0 THEN <<>> ELSE InsertByEnergy(s[k], SortFrom(s, k - 1))

\* the list returned in the order it was built: the sort left out
unsorted(s) == s

\* sorted(tapered_ham, key = lambda x: x[1]): stable, by energy
sorted_by_energy(s) == SortFrom(s, Len(s))

\* the tapered Hamiltonian of one sector of the loop
hamtap_of(slf, p, H, sector) ==
    perform_projection(update_S3_projection(slf, p, sector), H, NoRotation)

\* the values exact_gs_energy may return
Energies == {0, 1}

\* the loop of search_all_sectors and its sorted result; exact_gs_energy is
\* the ground-state energy of each tapered Hamiltonian
search_all_sectors(slf, p, H, exact_gs_energy) ==
    LET all_sectors == product_sectors(slf.n_taper)
        tapered_ham == [i \in 1..Len(all_sectors) |->
                           LET hamtap == hamtap_of(slf, p, H, all_sectors[i])
                           IN [sector |-> all_sectors[i],
                               energy |-> exact_gs_energy[hamtap],
                               hamtap |-> hamtap]]
    IN sorted_by_energy(tapered_ham)

\* the projection left as it was when search_all_sectors was entered
loop_projection_restored(slf, p) == p

\* the projection state the loop of search_all_sectors leaves behind: that of
\* the update_S3_projection of its last iteration
loop_projection(slf, p) ==
    LET all_sectors == product_sectors(slf.n_taper)
    IN update_S3_projection(slf, p, all_sectors[Len(all_sectors)])

MaxTaper == 2       \* search_all_sectors is called for at most this many generators

\* tapering.search_all_sectors()
SearchAllSectors ==
    /\ self.n_taper <= MaxTaper
    /\ LET all_sectors == product_sectors(self.n_taper)
           last == all_sectors[Len(all_sectors)]
           hamtaps == {hamtap_of(self, proj, hamiltonian, all_sectors[i]) :
                          i \in 1..Len(all_sectors)}
       IN \E exact_gs_energy \in [hamtaps -> Energies],
             dropped \in DroppedQubits(proj) :
             /\ ret' = [op |-> "search_all_sectors", status |-> "ok",
                        exact_gs_energy |-> exact_gs_energy,
                        value |-> search_all_sectors(self, proj, hamiltonian,
                                                     exact_gs_energy)]
             /\ proj' = after_projection(loop_projection(self, proj), dropped)
             /\ hist' = [updated |-> TRUE, last_update |-> last, since_search |-> TRUE]
    /\ UNCHANGED <<hamiltonian, noncontextual_set, ref_state, self>>

NextTaper == UpdateS3Projection \/ TaperIt \/ TaperRefState \/ SearchAllSectors

SpecTaper == InitTaper /\ [][NextTaper]_vars

----------------------------------------------------------------------------
(* Re-sectoring *)

\* the sector of the most recent update, or the measured one before any
ActiveSector == IF hist.updated THEN hist.last_update ELSE self.symmetry_sec

ProjectsInActiveSector(projection) ==
    /\ projection.eigenvalues = ActiveSector
    /\ projection.stabilizers = identify_symmetry_generators(DOMAIN hamiltonian)
    /\ projection.target_sqp = self.target_sqp

\* C3: taper_it and taper_ref_state project with the sector measured from
\* the reference state until the first update_S3_projection, and with the
\* eigenvalues of the most recent update after it, always over the symmetry
\* generators and the target Pauli of construction.
C3_ResectoringTakesEffect ==
    /\ ret.status = "ok" /\ ret.op = "taper_it" => ProjectsInActiveSector(ret.value)
    /\ ret.status = "ok" /\ ret.op = "taper_ref_state"
          => ProjectsInActiveSector(ret.projection)

\* taper_it has run after an update to a sector other than the measured one
C3_Witness ==
    /\ ret.status = "ok" /\ ret.op = "taper_it"
    /\ hist.updated
    /\ hist.last_update # self.symmetry_sec
    /\ ret.value.eigenvalues = hist.last_update

----------------------------------------------------------------------------
(* Exhaustive sector search *)

SearchReturned == ret.status = "ok" /\ ret.op = "search_all_sectors"

\* C4: search_all_sectors returns each sector of {+1,-1}^n_taper exactly
\* once, each with the Hamiltonian tapered in that sector and its energy,
\* ordered by non-decreasing energy.
C4_SearchAllSectors ==
    SearchReturned =>
        LET out == ret.value
        IN /\ Len(out) = 2 ^ self.n_taper
           /\ \A s \in Sectors(self.n_taper) :
                 Cardinality({i \in 1..Len(out) : out[i].sector = s}) = 1
           /\ \A i \in 1..Len(out) :
                 /\ out[i].hamtap = [operator        |-> hamiltonian,
                                     stabilizers     |-> self.symmetry_ops,
                                     eigenvalues     |-> out[i].sector,
                                     target_sqp      |-> self.target_sqp,
                                     insert_rotation |-> NoRotation]
                 /\ out[i].energy = ret.exact_gs_energy[out[i].hamtap]
           /\ \A i \in 1..(Len(out) - 1) : out[i].energy <= out[i + 1].energy

\* a search over four sectors whose energies are not all equal and were not
\* found in sorted order
C4_Witness ==
    /\ SearchReturned
    /\ Len(ret.value) >= 4
    /\ ret.value[1].energy < ret.value[Len(ret.value)].energy
    /\ ret.value[1].sector # <<1, 1>>

\* search_all_sectors has returned and the caller has not called
\* update_S3_projection since
SinceSearch == hist.since_search

AllMinusOne == [i \in 1..self.n_taper |-> -1]

\* the active projection is in the last sector enumerated, and so is every
\* taper_it that follows
TapersInLastSector ==
    SinceSearch =>
        /\ proj.eigenvalues = AllMinusOne
        /\ ret.status = "ok" /\ ret.op = "taper_it"
              => ret.value.eigenvalues = AllMinusOne

\* a call of search_all_sectors leaves the instance's attributes alone
SearchFrame ==
    ret'.op = "search_all_sectors" =>
        /\ self'.symmetry_ops = self.symmetry_ops
        /\ self'.symmetry_sec = self.symmetry_sec
        /\ ref_state' = ref_state
        /\ hamiltonian' = hamiltonian

\* C11: search_all_sectors does not restore the sector it started with: after
\* it returns the projection eigenvalues are those of the last sector
\* enumerated (all -1), a taper_it that follows without an update_S3_projection
\* in between tapers in that sector, and symmetry_ops, symmetry_sec, ref_state
\* and hamiltonian are unchanged by the search.
C11_SearchLeavesLastSector == []TapersInLastSector /\ [][SearchFrame]_vars

\* taper_it has run after a search, with no update in between, on an instance
\* whose reference-state sector is not the all -1 sector
C11_Witness ==
    /\ SinceSearch
    /\ ret.status = "ok" /\ ret.op = "taper_it"
    /\ self.n_taper >= 1
    /\ self.symmetry_sec # AllMinusOne
    /\ ret.value.eigenvalues = AllMinusOne

----------------------------------------------------------------------------
(* cs_vqe: the classical objective                                         *)

\* the increasing index tuples of size i over lo..n, in the order of
\* itertools.combinations
RECURSIVE combinations_from(_, _, _), combinations_first(_, _, _, _)
combinations_from(lo, n, i) ==
    IF i = 0 THEN << <<>> >> ELSE combinations_first(lo, lo, n, i)

combinations_first(first, lo, n, i) ==
    IF first > n - i + 1 THEN <<>>
    ELSE LET rest == combinations_from(first + 1, n, i - 1)
         IN [j \in 1..Len(rest) |-> <<first>> \o rest[j]]
            \o combinations_first(first + 1, lo, n, i)

\* G_combs: the combinations of every size from 1 to top
RECURSIVE G_combs_upto(_, _)
G_combs_upto(n, top) ==
    IF top = 0 THEN <<>>
    ELSE G_combs_upto(n, top - 1) \o combinations_from(1, n, top)

\* multiply_pauli_list: the label of the product of a list of labels
RECURSIVE multiply_pauli_list(_)
multiply_pauli_list(ops) ==
    IF ops = <<>> THEN Identity
    ELSE multiply_paulis(Head(ops), multiply_pauli_list(Tail(ops)))

\* G.index(op), counted from 0
list_index(G, op) == Min({i \in 1..Len(G) : G[i] = op}) - 1

\* hamiltonian._dict[label], 0 when the lookup raises
coefficient(H, label) == IF label \in DOMAIN H THEN H[label] ELSE 0

\* the closure of G without its largest combination: range(1, len(G))
G_closure_short(G) ==
    LET combs == G_combs_upto(Len(G), Len(G) - 1)
    IN [c \in 1..Len(combs) |->
           LET comb == [j \in 1..Len(combs[c]) |-> G[combs[c][j]]]
           IN [G_op |-> multiply_pauli_list(comb),
               q_indices |-> [j \in 1..Len(comb) |-> list_index(G, comb[j])]]]
       \o <<[G_op |-> Identity, q_indices |-> <<>>]>>

\* G_closure: each nonempty combination's product with the indices of its
\* generators, then the identity with no index
G_closure(G) ==
    LET combs == G_combs_upto(Len(G), Len(G))
    IN [c \in 1..Len(combs) |->
           LET comb == [j \in 1..Len(combs[c]) |-> G[combs[c][j]]]
           IN [G_op |-> multiply_pauli_list(comb),
               q_indices |-> [j \in 1..Len(comb) |-> list_index(G, comb[j])]]]
       \o <<[G_op |-> Identity, q_indices |-> <<>>]>>

\* cs_vqe.classical_obj_fnc_params(G, C)
classical_obj_fnc_params(G, C, H) ==
    LET closure == G_closure(G)
        params == [c \in 1..Len(closure) |->
                      [h_G       |-> coefficient(H, closure[c].G_op),
                       q_indices |-> closure[c].q_indices,
                       C_vec     |-> [k \in 1..Len(C) |->
                                         coefficient(H, multiply_paulis(closure[c].G_op, C[k]))]]]
    IN SelectSeq(params,
                 LAMBDA e : e.h_G # 0 \/ ~(\A k \in 1..Len(e.C_vec) : e.C_vec[k] = 0))

\* the unit vectors (sin t, cos t) of the sampled angles, in fifths
Scale == 5
Thetas == {<<0, 5>>, <<5, 0>>, <<3, 4>>, <<-4, 3>>}

RECURSIVE SeqProd(_)
SeqProd(s) == IF s = <<>> THEN 1 ELSE Head(s) * SeqProd(Tail(s))

RECURSIVE SeqSum(_)
SeqSum(s) == IF s = <<>> THEN 0 ELSE Head(s) + SeqSum(Tail(s))

\* cs_vqe.classical_obj_fnc(input_params): q[i + 1] is input_params['q{i}'],
\* theta is (sin t, cos t); the value is in fifths. Indexing h_GCs[1] of a
\* term with fewer than two clique coefficients raises IndexError.
classical_obj_fnc(objfncprms, q, theta) ==
    IF \E e \in 1..Len(objfncprms) : Len(objfncprms[e].C_vec) < 2
    THEN [status |-> "IndexError"]
    ELSE [status |-> "ok",
          value  |-> SeqSum([e \in 1..Len(objfncprms) |->
                        LET t == objfncprms[e]
                            q_prod == SeqProd([j \in 1..Len(t.q_indices) |->
                                                  q[t.q_indices[j] + 1]])
                        IN (Scale * t.h_G + theta[1] * t.C_vec[1]
                                + theta[2] * t.C_vec[2]) * q_prod])]

----------------------------------------------------------------------------
(* cs_vqe: unitary partitioning                                            *)

\* the power of i in the product of two letters: XY = iZ, YZ = iX, ZX = iY
LetterPhase(a, b) ==
    IF a = "I" \/ b = "I" \/ a = b THEN 0
    ELSE IF <<a, b>> \in {<<"X", "Y">>, <<"Y", "Z">>, <<"Z", "X">>} THEN 1
    ELSE 3

\* multiply_paulis_with_coeff: the label and the power of i of the product
multiply_paulis_with_coeff(p, q) ==
    [label |-> multiply_paulis(p, q),
     phase |-> SeqSum([i \in Qubits |-> LetterPhase(p[i], q[i])]) % 4]

\* the sort key of unitary_partitioning_rotation: count('X') + count('Y')
XYCount(label) == Cardinality({i \in Qubits : label[i] \in {"X", "Y"}})

\* a key that counts every non-identity letter
NonIdentityCount(label) == Cardinality({i \in Qubits : label[i] # "I"})

RECURSIVE InsertByXY(_, _)
InsertByXY(x, s) ==
    IF s = <<>> THEN <<x>>
    ELSE IF XYCount(x.label) < XYCount(Head(s).label) THEN <<x>> \o s
    ELSE <<Head(s)>> \o InsertByXY(x, Tail(s))

RECURSIVE SortByXYFrom(_, _)
SortByXYFrom(s, k) ==
    IF k = 0 THEN <<>> ELSE InsertByXY(s[k], SortByXYFrom(s, k - 1))

\* the items in the order given: the sort left out
order_terms_unsorted(items) == items

\* order_terms: the items of the clique operator sorted (stably) by the key
order_terms(items) == SortByXYFrom(items, Len(items))

\* anti_clique_operator: zip(cliquereps, r) as a dictionary, in its order
anti_clique_operator(cliquereps, r) ==
    [i \in 1..(IF Len(cliquereps) < Len(r) THEN Len(cliquereps) ELSE Len(r)) |->
        [label |-> cliquereps[i], weight |-> r[i]]]

\* the method without its check of the weights
unitary_partitioning_rotation_unchecked(items) ==
    IF Len(items) # 2 THEN [status |-> "ValueError", why |-> "unpack"]
    ELSE LET o == order_terms(items)
             A == o[1].label   a == o[1].weight
             B == o[2].label   b == o[2].weight
             Qc == multiply_paulis_with_coeff(A, B)
             sign == IF Qc.phase = 1 THEN -1 ELSE IF Qc.phase = 3 THEN 1 ELSE 0
         IN [status |-> "ok", Q |-> Qc.label,
             t |-> [tan |-> <<(0 - b) * sign, a>>, plus_pi |-> sign # 0 /\ a < 0],
             A |-> A, a |-> a, B |-> B, b |-> b]

\* cs_vqe.unitary_partitioning_rotation: (Q, t), with t = arctan(-b/a) sign
\* given by its tangent as a fraction, and pi added when a + cos t vanishes,
\* which for a unit (a, b) and a nonzero sign is when a < 0
unitary_partitioning_rotation(items) ==
    IF Len(items) # 2 THEN [status |-> "ValueError", why |-> "unpack"]
    ELSE LET o == order_terms(items)
             A == o[1].label   a == o[1].weight
             B == o[2].label   b == o[2].weight
             Qc == multiply_paulis_with_coeff(A, B)
             sign == IF Qc.phase = 1 THEN -1 ELSE IF Qc.phase = 3 THEN 1 ELSE 0
         IN IF a = 0 \/ b = 0
            THEN [status |-> "ValueError", why |-> "one term", a |-> a, b |-> b]
            ELSE [status |-> "ok", Q |-> Qc.label,
                  t |-> [tan |-> <<(0 - b) * sign, a>>, plus_pi |-> sign # 0 /\ a < 0],
                  A |-> A, a |-> a, B |-> B, b |-> b]

\* rotate_operator(anti_clique_operator, [(Q, t, False)]): with t chosen as
\* above the weight of B vanishes and A is left with weight a cos t - b sin t
\* = +1
rotate_clique_operator(up) == [label |-> up.A, coeff |-> 1]

----------------------------------------------------------------------------
(* cs_vqe: construction                                                    *)

MaxCsTerms == 3     \* terms of the Hamiltonian of a cs_vqe instance

InitCs ==
    /\ \E T \in TermSets(MaxCsTerms) : \E nc \in (SUBSET T) \ {{}} :
          /\ hamiltonian = [t \in T |-> 1]
          /\ noncontextual_set = nc
    /\ ref_state = <<>>
    /\ self = [class |-> "cs_vqe", stage |-> "new"]
    /\ proj = None
    /\ ret = None
    /\ hist = <<>>

Failed(error) == [class |-> "cs_vqe", stage |-> "failed", error |-> error]

\* cs_vqe.__init__ up to the classical objective: the decomposition of the
\* noncontextual part and the objective's terms
Decompose ==
    /\ self.stage = "new"
    /\ LET dec == independent_generators(DOMAIN hamiltonian \cap noncontextual_set)
       IN IF dec.status # "ok"
          THEN /\ self' = Failed(dec.status)
               /\ ret' = [op |-> "independent_generators"] @@ dec
          ELSE /\ self' = [class        |-> "cs_vqe",
                           stage        |-> "objective",
                           single_pauli |-> "Z",
                           generators   |-> dec.generators,
                           cliquereps   |-> dec.cliquereps,
                           objfncprms   |-> classical_obj_fnc_params(
                                               dec.generators, dec.cliquereps, hamiltonian)]
               /\ ret' = [op |-> "classical_obj_fnc_params", status |-> "ok"]
    /\ UNCHANGED <<hamiltonian, noncontextual_set, ref_state, proj, hist>>

\* the optimizer's call of cs_vqe.classical_obj_fnc at one sample; what it
\* raises ends the construction
Evaluate ==
    /\ self.stage = "objective"
    /\ \E q \in Sectors(Len(self.generators)), theta \in Thetas :
          LET e == classical_obj_fnc(self.objfncprms, q, theta)
          IN /\ ret' = [op |-> "classical_obj_fnc", q |-> q, theta |-> theta,
                        objfncprms |-> self.objfncprms,
                        k |-> Len(self.cliquereps)] @@ e
             /\ self' = IF e.status = "ok" THEN self ELSE Failed(e.status)
    /\ UNCHANGED <<hamiltonian, noncontextual_set, ref_state, proj, hist>>

\* the rest of cs_vqe.__init__: the optimizer's best sample (nu, r), the
\* unitary partitioning rotation, and the clique operator it collapses to
\* put in front of the generators and of nu
Finish ==
    /\ self.stage = "objective"
    /\ \E nu \in Sectors(Len(self.generators)), r \in Thetas :
          LET best  == classical_obj_fnc(self.objfncprms, nu, r)
              items == anti_clique_operator(self.cliquereps, r)
              up    == unitary_partitioning_rotation(items)
          IN /\ best.status = "ok"
             /\ hist' = [sample  |-> [nu |-> nu, r |-> r],
                         up_call |-> [items |-> items, result |-> up],
                         clique_rot |-> IF up.status = "ok" /\ ~Commute(up.A, up.B)
                                        THEN rotate_clique_operator(up)
                                        ELSE [label |-> "none"]]
             /\ IF up.status # "ok"
                THEN /\ self' = Failed(up.status)
                     /\ ret' = [op |-> "unitary_partitioning_rotation",
                                status |-> up.status]
                ELSE IF Commute(up.A, up.B)
                THEN /\ self' = Failed("AssertionError")
                     /\ ret' = [op |-> "__init__", status |-> "AssertionError"]
                ELSE LET clique_rot == rotate_clique_operator(up)
                         C == clique_rot.label
                         C_eigval == clique_rot.coeff
                     IN
                     /\ ret' = [op |-> "__init__", status |-> "ok"]
                     /\ self' = [class        |-> "cs_vqe",
                                 stage        |-> "ready",
                                 single_pauli |-> self.single_pauli,
                                 generators   |-> <<C>> \o self.generators,
                                 cliquereps   |-> self.cliquereps,
                                 objfncprms   |-> self.objfncprms,
                                 ngs_energy   |-> best.value,
                                 nu           |-> <<C_eigval>> \o nu,
                                 r            |-> r,
                                 anti_clique_operator |-> items,
                                 unitary_partitioning |->
                                     [Q |-> up.Q, t |-> up.t, clifford |-> FALSE],
                                 all_rotations |-> <<>>]
    /\ UNCHANGED <<hamiltonian, noncontextual_set, ref_state, proj>>

----------------------------------------------------------------------------
(* cs_vqe: projection onto the contextual subspace                         *)

\* the lists of distinct generator positions (counted from 0), increasing
StabilizerIndices(n) ==
    {SelectSeq([i \in 1..n |-> i - 1], LAMBDA i : i \in S) : S \in SUBSET (0..(n - 1))}

\* _contextual_subspace_projection that never inserts the rotation
insert_rotation_never(slf, stabilizer_indices) == NoRotation

\* the rotation _contextual_subspace_projection hands to perform_projection
insert_rotation_for(slf, stabilizer_indices) ==
    IF \E i \in 1..Len(stabilizer_indices) : stabilizer_indices[i] = 0
    THEN slf.unitary_partitioning
    ELSE NoRotation

\* the S3_projection state _contextual_subspace_projection sets up
contextual_subspace_stabilizers(slf, p, stabilizer_indices) ==
    S3_projection_init(p,
        [i \in 1..Len(stabilizer_indices) |-> slf.generators[stabilizer_indices[i] + 1]],
        [i \in 1..Len(stabilizer_indices) |-> slf.nu[stabilizer_indices[i] + 1]],
        slf.single_pauli)

\* cleanup_operator(ham_cs._dict, threshold = 8)
cleanup_operator(op, threshold) == [cleaned |-> op, threshold |-> threshold]

\* cs_vqe.contextual_subspace_hamiltonian(stabilizer_indices)
ContextualSubspaceHamiltonian ==
    /\ self.stage = "ready"
    /\ \E stabilizer_indices \in StabilizerIndices(Len(self.generators)) :
          LET p == contextual_subspace_stabilizers(self, proj, stabilizer_indices)
              ham_cs == perform_projection(p, hamiltonian,
                                           insert_rotation_for(self, stabilizer_indices))
          IN \E dropped \in DroppedQubits(p) :
                /\ proj' = after_projection(p, dropped)
                /\ ret' = [op |-> "contextual_subspace_hamiltonian", status |-> "ok",
                           stabilizer_indices |-> stabilizer_indices,
                           projection |-> ham_cs,
                           value |-> cleanup_operator(ham_cs, 8)]
    /\ UNCHANGED <<hamiltonian, noncontextual_set, ref_state, self, hist>>

\* the keyword parameters contextual_subspace_hamiltonian accepts
contextual_subspace_hamiltonian_parameters == {"stabilizer_indices"}

\* cs_vqe.noncontextual_ground_state: it calls contextual_subspace_hamiltonian
\* with the keywords stabilizer_indices and projection_qubits, which raises
\* TypeError unless both are parameters; past that call it reduces the
\* simultaneous eigenstates to the free qubits, prints them when there are
\* several, and returns the first
noncontextual_ground_state(poss_eigenstates, free_q) ==
    IF ~({"stabilizer_indices", "projection_qubits"}
            \subseteq contextual_subspace_hamiltonian_parameters)
    THEN [status |-> "TypeError"]
    ELSE LET reduced_eigenstates ==
                 [s \in 1..Len(poss_eigenstates) |->
                     [i \in 1..Len(free_q) |-> poss_eigenstates[s][free_q[i]]]]
         IN IF reduced_eigenstates = <<>>
            THEN [status |-> "IndexError"]
            ELSE [status  |-> "ok",
                  printed |-> IF Len(reduced_eigenstates) > 1
                              THEN <<"Multiple eigenstates found:", reduced_eigenstates>>
                              ELSE <<>>,
                  reduced_eigenstates |-> reduced_eigenstates,
                  value   |-> reduced_eigenstates[1]]

\* the basis states simultaneous_eigenstates may find: one, or two
PossEigenstates ==
    {<<[q \in Qubits |-> 0]>>, <<[q \in Qubits |-> 0], [q \in Qubits |-> 1]>>}

\* cs_vqe.noncontextual_ground_state(stabilizer_indices, projection_qubits)
NoncontextualGroundState ==
    /\ self.stage = "ready"
    /\ \E stabilizer_indices \in StabilizerIndices(Len(self.generators)),
          poss_eigenstates \in PossEigenstates :
          ret' = [op |-> "noncontextual_ground_state"]
                 @@ noncontextual_ground_state(poss_eigenstates, <<1>>)
    /\ UNCHANGED <<hamiltonian, noncontextual_set, ref_state, self, proj, hist>>

NextCs ==
    \/ Decompose
    \/ Evaluate
    \/ Finish
    \/ ContextualSubspaceHamiltonian
    \/ NoncontextualGroundState

SpecCs == InitCs /\ [][NextCs]_vars

----------------------------------------------------------------------------
(* Unitary partitioning: the weights                                       *)

UpCalled == "up_call" \in DOMAIN hist

HasZeroWeight(items) == \E i \in 1..Len(items) : items[i].weight = 0

\* C5: called on a two-term clique operator with a weight that is exactly
\* zero, unitary_partitioning_rotation raises and yields no (Q, t), and the
\* construction fails; it yields (Q, t) only when both weights are nonzero.
C5_DegenerateCliqueRaises ==
    UpCalled =>
        LET c == hist.up_call
        IN /\ Len(c.items) = 2 /\ HasZeroWeight(c.items)
                => /\ c.result.status = "ValueError"
                   /\ {"Q", "t"} \cap DOMAIN c.result = {}
                   /\ self.stage = "failed"
           /\ c.result.status = "ok"
                => /\ ~HasZeroWeight(c.items)
                   /\ {"Q", "t"} \subseteq DOMAIN c.result

\* the rotation was asked for a clique operator with one weight zero
C5_Witness ==
    /\ UpCalled
    /\ Len(hist.up_call.items) = 2
    /\ hist.up_call.items[2].weight = 0
    /\ hist.up_call.result.status = "ValueError"
    /\ self.stage = "failed"

\* C10 as claimed: the first term A, with weight a, is the representative
\* with no more non-identity letters (X, Y and Z counted) than the other.
C10_FewerNonIdentityFirst ==
    UpCalled /\ hist.up_call.result.status = "ok" =>
        NonIdentityCount(hist.up_call.result.A) <= NonIdentityCount(hist.up_call.result.B)

\* C10 amended: A, with weight a, is the representative with fewer X and Y
\* letters (Z and I are not counted), and the first of the two clique
\* representatives when they have as many; B, with weight b, is the other.
C10_FewerXYFirst ==
    UpCalled /\ hist.up_call.result.status = "ok" =>
        LET c == hist.up_call
            first  == c.items[1]
            second == c.items[2]
            A == [label |-> c.result.A, weight |-> c.result.a]
            B == [label |-> c.result.B, weight |-> c.result.b]
        IN /\ XYCount(A.label) <= XYCount(B.label)
           /\ IF XYCount(second.label) < XYCount(first.label)
              THEN A = second /\ B = first
              ELSE A = first /\ B = second
           /\ c.result.Q = multiply_paulis(A.label, B.label)

\* the second clique representative has fewer X and Y letters and became A
C10_Witness ==
    /\ UpCalled /\ hist.up_call.result.status = "ok"
    /\ hist.up_call.result.A = hist.up_call.items[2].label
    /\ XYCount(hist.up_call.result.A) < XYCount(hist.up_call.result.B)
    /\ self.stage = "ready"

----------------------------------------------------------------------------
(* The classical objective                                                 *)

\* C7 as claimed: with one clique representative the objective has a value
\* at every sample, and the value is the same at every angle.
C7_SingleCliqueEnergyDefined ==
    ret.op = "classical_obj_fnc" /\ ret.k = 1 =>
        /\ ret.status = "ok"
        /\ \A theta \in Thetas :
              classical_obj_fnc(ret.objfncprms, ret.q, theta)
                  = [status |-> "ok", value |-> ret.value]

\* the sorted list of a set of indices
RECURSIVE SortedSeq(_)
SortedSeq(S) ==
    IF S = {} THEN <<>>
    ELSE LET x == Min(S) IN <<x>> \o SortedSeq(S \ {x})

\* the product of the generators at a set of indices (counted from 0)
RECURSIVE ProductOver(_, _)
ProductOver(G, S) ==
    IF S = {} THEN Identity
    ELSE LET i == CHOOSE x \in S : TRUE
         IN multiply_paulis(G[i + 1], ProductOver(G, S \ {i}))

\* the coefficient of a label in the Hamiltonian, 0 for a label it lacks
HamCoefficient(label) ==
    IF label \in DOMAIN hamiltonian THEN hamiltonian[label] ELSE 0

ObjectiveBuilt == self.stage = "objective" /\ ret.op = "classical_obj_fnc_params"

\* C8: the closure holds, for each subset of the generators (the empty one
\* standing for the identity), exactly one element: the subset's product
\* with the subset's indices; a label the Hamiltonian lacks counts as 0;
\* and the objective's terms are exactly the closure elements whose own
\* coefficient or one of whose clique-product coefficients is nonzero.
C8_ObjectiveTerms ==
    ObjectiveBuilt =>
        LET G == self.generators
            C == self.cliquereps
            P == self.objfncprms
            closure == G_closure(G)
            subsets == SUBSET (0..(Len(G) - 1))
        IN /\ Len(closure) = 2 ^ Len(G)
           /\ closure[Len(closure)] = [G_op |-> Identity, q_indices |-> <<>>]
           /\ \A S \in subsets :
                 LET idx    == SortedSeq(S)
                     G_op   == ProductOver(G, S)
                     h_G    == HamCoefficient(G_op)
                     C_vec  == [k \in 1..Len(C) |->
                                   HamCoefficient(multiply_paulis(G_op, C[k]))]
                     kept   == h_G # 0 \/ \E k \in 1..Len(C) : C_vec[k] # 0
                     inP    == {e \in 1..Len(P) : P[e].q_indices = idx}
                 IN /\ Cardinality({c \in 1..Len(closure) :
                                       closure[c] = [G_op |-> G_op, q_indices |-> idx]}) = 1
                    /\ Cardinality(inP) = IF kept THEN 1 ELSE 0
                    /\ \A e \in inP : P[e] = [h_G |-> h_G, q_indices |-> idx,
                                              C_vec |-> C_vec]
           /\ \A e \in 1..Len(P) : \E S \in subsets : P[e].q_indices = SortedSeq(S)

\* some closure elements are kept, one of them for its own coefficient, and
\* some are dropped
C8_Witness ==
    /\ ObjectiveBuilt
    /\ Len(self.generators) >= 2
    /\ Len(self.objfncprms) >= 2
    /\ Len(self.objfncprms) < 2 ^ Len(self.generators)
    /\ \E e \in 1..Len(self.objfncprms) :
          /\ self.objfncprms[e].h_G # 0
          /\ Len(self.objfncprms[e].q_indices) = 2
    /\ \E e \in 1..Len(self.objfncprms) :
          /\ self.objfncprms[e].h_G = 0
          /\ self.objfncprms[e].q_indices # <<>>

----------------------------------------------------------------------------
(* The clique operator among the generators                                *)

\* C6 as claimed: noncontextual_ground_state returns the first of the basis
\* states compatible with the stabilizers, and lists them when they are
\* several.
C6_AmbiguousSectorReturnsFirst ==
    ret.op = "noncontextual_ground_state" =>
        /\ ret.status = "ok"
        /\ ret.value = ret.reduced_eigenstates[1]
        /\ Len(ret.reduced_eigenstates) > 1
              => ret.printed = <<"Multiple eigenstates found:", ret.reduced_eigenstates>>

HasIndexZero(stabilizer_indices) ==
    \E i \in 1..Len(stabilizer_indices) : stabilizer_indices[i] = 0

====
